---- MODULE Spec2Model ----
(***************************************************************************)
(* DoubleLink: a lock-free MPMC FIFO queue on a doubly linked list, with   *)
(* epoch-based reclamation (src/src/ebr.rs) and hazard-pointer             *)
(* reclamation (src/src/hp.rs).                                            *)
(*                                                                         *)
(* Every access to shared memory (head, tail, a node's field, a hazard     *)
(* slot) is one step of the calling thread; memory is sequentially         *)
(* consistent.  Nodes live at addresses; the allocator may hand out the    *)
(* address of a freed node again.  A read of a freed (or never allocated)  *)
(* address is undefined behaviour: it yields any value of the field's      *)
(* type, and is recorded in uaf.                                           *)
(***************************************************************************)
EXTENDS Integers, Sequences, FiniteSets, TLC

\* ---------------------------------------------------------------- bounds
NThreads == 2
MaxEnq == 2
MaxDeq == 3

\* -------------------------------------------------------------- constants
Null == 0
None == 0
Threads == 1..NThreads
\* The thread that owns the queue at the end and drops it.
Dropper == NThreads + 1
Procs == Threads \cup {Dropper}
Addr == 1..(MaxEnq + 1)
Items == 1..MaxEnq
Sentinel0 == CHOOSE a \in Addr : \A b \in Addr : a <= b

VARIABLES
    variant,    \* "ebr" | "hp": which implementation runs
    head, tail, \* DoubleLink.head, DoubleLink.tail
    item, prev, next, \* Node fields, by address
    st,         \* address -> "unalloc" | "live" | "retired" | "freed"
    rg,         \* EBR: retired address -> threads whose guard was active at retirement
    pinned,     \* EBR: thread -> it holds a pinned guard
    pri, sub,   \* HP: Holder.pri, Holder.sub, by thread
    pc,         \* position of each thread in its current call
    loc,        \* the locals of each thread's current call; idx and seen are
                \* history: the position of the call's head-CAS event, and the
                \* number of successful CASes on tail (head) at the call's last
                \* load of tail (head)
    phase,      \* "run" | "drop" | "dropped"
    nEnq, nDeq, \* calls started so far
    log,        \* history: tail-CAS, head-CAS and empty-return events in order
    overlap,    \* history: some call started while another call was running
    mixed,      \* history: a dequeue ran before all enqueues had returned
    uaf,        \* history: a field of a freed node was read or written
    dfree       \* history: a node was destroyed or retired twice

mem == <<head, tail, item, prev, next, st>>
ebrv == <<rg, pinned>>
hpv == <<pri, sub>>
hist == <<log, overlap, mixed, uaf, dfree>>
vars == <<variant, head, tail, item, prev, next, st, rg, pinned, pri, sub,
          pc, loc, phase, nEnq, nDeq, log, overlap, mixed, uaf, dfree>>

NoLoc == [node |-> Null, ltail |-> Null, lprev |-> Null, lhead |-> Null,
          lnext |-> Null, ptr |-> Null, link |-> "none", idx |-> 0, seen |-> 0]

\* ------------------------------------------------------------ memory
\* An address whose memory is still a node: allocated and not yet destroyed.
Mapped(a) == a \in Addr /\ st[a] \in {"live", "retired"}

\* The values a load of pointer field f of the node at a can yield.
ReadPtr(f, a) == IF Mapped(a) THEN {f[a]} ELSE Addr \cup {Null}

\* The values a read of the item of the node at a can yield.
ReadItem(a) == IF Mapped(a) THEN {item[a]} ELSE Items \cup {None}

Touch(a) == uaf' = (uaf \/ ~Mapped(a))

\* A null check with its sense inverted.
IsNullInverted(p) == p # Null

\* Shared<T>::is_null() / <*mut T>::is_null().
IsNull(p) == p = Null

MinOf(S) == CHOOSE a \in S : \A b \in S : a <= b

\* The addresses the allocator can return: a fresh one, or any freed one.
Allocatable ==
    LET fresh == {a \in Addr : st[a] = "unalloc"}
    IN  {a \in Addr : st[a] = "freed"} \cup (IF fresh = {} THEN {} ELSE {MinOf(fresh)})

InCall(u) == pc[u] \notin {"idle", "panicked", "crashed"}

\* Thread u is inside enqueue: it holds the node it allocated.
InEnq(u) == InCall(u) /\ loc[u].node # Null

Return(t) ==
    /\ pc' = [pc EXCEPT ![t] = "idle"]
    /\ loc' = [loc EXCEPT ![t] = NoLoc]

Goto(t, l) == pc' = [pc EXCEPT ![t] = l]

\* A dereference of the null pointer ends the thread.
Crash(t) ==
    /\ pc' = [pc EXCEPT ![t] = "crashed"]
    /\ loc' = [loc EXCEPT ![t] = NoLoc]
    /\ uaf' = TRUE

\* ------------------------------------------------------------ Node
\* Node::new(item): a node at address a with no links.
NodeNew(a, x) ==
    /\ item' = [item EXCEPT ![a] = x]
    /\ prev' = [prev EXCEPT ![a] = Null]
    /\ next' = [next EXCEPT ![a] = Null]
    /\ st' = [st EXCEPT ![a] = "live"]

\* DoubleLink::new(): the sentinel, its prev pointing to itself.
InitQueue ==
    /\ head = Sentinel0
    /\ tail = Sentinel0
    /\ item = [a \in Addr |-> None]
    /\ prev = [a \in Addr |-> IF a = Sentinel0 THEN Sentinel0 ELSE Null]
    /\ next = [a \in Addr |-> Null]
    /\ st = [a \in Addr |-> IF a = Sentinel0 THEN "live" ELSE "unalloc"]

InitRest ==
    /\ rg = [a \in Addr |-> {}]
    /\ pinned = [t \in Procs |-> FALSE]
    /\ pri = [t \in Procs |-> Null]
    /\ sub = [t \in Procs |-> Null]
    /\ pc = [t \in Procs |-> "idle"]
    /\ loc = [t \in Procs |-> NoLoc]
    /\ phase = "run"
    /\ nEnq = 0
    /\ nDeq = 0
    /\ log = <<>>
    /\ overlap = FALSE
    /\ mixed = FALSE
    /\ uaf = FALSE
    /\ dfree = FALSE

\* What starting a call records in the history.
BeginEnq(t) ==
    /\ nEnq' = nEnq + 1
    /\ overlap' = (overlap \/ \E u \in Threads \ {t} : InCall(u))
    /\ mixed' = (mixed \/ nDeq > 0)

BeginDeq(t) ==
    /\ nDeq' = nDeq + 1
    /\ overlap' = (overlap \/ \E u \in Threads \ {t} : InCall(u))
    /\ mixed' = (mixed \/ \E u \in Threads \ {t} : InEnq(u))

\* The number of successful CASes on tail so far.
TailCasCount == Cardinality({i \in DOMAIN log : log[i].op = "enq"})

\* The number of successful CASes on head so far.
HeadCasCount == Cardinality({i \in DOMAIN log : log[i].op = "deq"})

\* ------------------------------------------------------------ EBR
\* crossbeam_epoch::pin(): the caller takes a guard.
Pin(t) ==
    /\ variant = "ebr" /\ t \in Threads
    /\ pc[t] = "idle" /\ ~pinned[t]
    /\ pinned' = [pinned EXCEPT ![t] = TRUE]
    /\ UNCHANGED <<variant, mem, rg, hpv, pc, loc, phase, nEnq, nDeq, hist>>

\* The guard of thread t is dropped: it no longer holds back any retired node.
DropGuard(t) ==
    /\ pinned' = [pinned EXCEPT ![t] = FALSE]
    /\ rg' = [a \in Addr |-> rg[a] \ {t}]

Unpin(t) ==
    /\ variant = "ebr" /\ t \in Threads
    /\ pc[t] = "idle" /\ pinned[t]
    /\ DropGuard(t)
    /\ UNCHANGED <<variant, mem, hpv, pc, loc, phase, nEnq, nDeq, hist>>

\* The epoch service destroys a retired node once every guard that was
\* active at its retirement has been dropped.
EbrReclaim(a) ==
    /\ variant = "ebr"
    /\ st[a] = "retired" /\ rg[a] = {}
    /\ st' = [st EXCEPT ![a] = "freed"]
    /\ UNCHANGED <<variant, head, tail, item, prev, next, ebrv, hpv, pc, loc,
                   phase, nEnq, nDeq, hist>>

\* enqueue, line 49: allocate the node.
E_Alloc(t) ==
    /\ variant = "ebr" /\ t \in Threads /\ phase = "run"
    /\ pc[t] = "idle" /\ pinned[t] /\ nEnq < MaxEnq
    /\ \E a \in Allocatable :
        /\ NodeNew(a, nEnq + 1)
        /\ loc' = [loc EXCEPT ![t].node = a]
    /\ Goto(t, "e_ltail")
    /\ BeginEnq(t)
    /\ UNCHANGED <<variant, head, tail, ebrv, hpv, phase, nDeq, log, uaf, dfree>>

\* enqueue, line 51: ltail = tail.load().
E_LoadTail(t) ==
    /\ variant = "ebr" /\ pc[t] = "e_ltail"
    /\ loc' = [loc EXCEPT ![t].ltail = tail, ![t].seen = TailCasCount]
    /\ Goto(t, "e_lprev")
    /\ UNCHANGED <<variant, mem, ebrv, hpv, phase, nEnq, nDeq, hist>>

\* enqueue, line 52: lprev = ltail.prev.load().
E_LoadPrev(t) ==
    /\ variant = "ebr" /\ pc[t] = "e_lprev"
    /\ \E v \in ReadPtr(prev, loc[t].ltail) : loc' = [loc EXCEPT ![t].lprev = v]
    /\ Touch(loc[t].ltail)
    /\ Goto(t, "e_setprev")
    /\ UNCHANGED <<variant, mem, ebrv, hpv, phase, nEnq, nDeq, log, overlap, mixed, dfree>>

\* enqueue, line 53: node.prev.store(ltail).
E_SetPrev(t) ==
    /\ variant = "ebr" /\ pc[t] = "e_setprev"
    /\ prev' = [prev EXCEPT ![loc[t].node] = loc[t].ltail]
    /\ Touch(loc[t].node)
    /\ Goto(t, "e_help")
    /\ UNCHANGED <<variant, head, tail, item, next, st, ebrv, hpv, loc, phase,
                   nEnq, nDeq, log, overlap, mixed, dfree>>

\* enqueue, line 55: lprev.next.load().is_null().
E_HelpLoad(t) ==
    /\ variant = "ebr" /\ pc[t] = "e_help"
    /\ IF loc[t].lprev = Null
       THEN Crash(t)
       ELSE /\ \E v \in ReadPtr(next, loc[t].lprev) :
                  Goto(t, IF IsNull(v) THEN "e_helpst" ELSE "e_cas")
            /\ Touch(loc[t].lprev)
            /\ UNCHANGED loc
    /\ UNCHANGED <<variant, mem, ebrv, hpv, phase, nEnq, nDeq, log, overlap, mixed, dfree>>

\* enqueue, line 56: lprev.next.store(ltail).
E_HelpStore(t) ==
    /\ variant = "ebr" /\ pc[t] = "e_helpst"
    /\ next' = [next EXCEPT ![loc[t].lprev] = loc[t].ltail]
    /\ Touch(loc[t].lprev)
    /\ Goto(t, "e_cas")
    /\ UNCHANGED <<variant, head, tail, item, prev, st, ebrv, hpv, loc, phase,
                   nEnq, nDeq, log, overlap, mixed, dfree>>

\* The history event of a successful tail CAS that installs the node at a.
EnqEvent(t, a) == [op |-> "enq", t |-> t, v |-> item[a]]

\* enqueue, lines 58-61: tail.compare_exchange(ltail, node).
E_CasTail(t) ==
    /\ variant = "ebr" /\ pc[t] = "e_cas"
    /\ IF tail = loc[t].ltail
       THEN /\ tail' = loc[t].node
            /\ log' = Append(log, EnqEvent(t, loc[t].node))
            /\ Goto(t, "e_link")
       ELSE /\ Goto(t, "e_ltail")
            /\ UNCHANGED <<tail, log>>
    /\ UNCHANGED <<variant, head, item, prev, next, st, ebrv, hpv, loc, phase,
                   nEnq, nDeq, overlap, mixed, uaf, dfree>>

\* enqueue, lines 63-64: ltail.next.store(node); return.
E_Link(t) ==
    /\ variant = "ebr" /\ pc[t] = "e_link"
    /\ next' = [next EXCEPT ![loc[t].ltail] = loc[t].node]
    /\ Touch(loc[t].ltail)
    /\ Return(t)
    /\ UNCHANGED <<variant, head, tail, item, prev, st, ebrv, hpv, phase,
                   nEnq, nDeq, log, overlap, mixed, dfree>>

\* dequeue, line 71: lhead = head.load(); also the start of a call.
D_LoadHead(t) ==
    /\ variant = "ebr"
    /\ \/ /\ t \in Threads /\ phase = "run" /\ pc[t] = "idle"
          /\ pinned[t] /\ nDeq < MaxDeq
          /\ BeginDeq(t)
       \/ /\ pc[t] = "d_lhead"
          /\ UNCHANGED <<nDeq, overlap, mixed>>
    /\ loc' = [loc EXCEPT ![t].lhead = head, ![t].seen = HeadCasCount]
    /\ Goto(t, "d_lnext")
    /\ UNCHANGED <<variant, mem, ebrv, hpv, phase, nEnq, log, uaf, dfree>>

\* The history event of a dequeue that found the queue empty.
NoneEvent(t) == [op |-> "none", t |-> t, v |-> None]

\* The history event of a successful head CAS; v is filled in when the item is read.
DeqEvent(t) == [op |-> "deq", t |-> t, v |-> None]

\* dequeue, lines 72-76: lnext = lhead.next.load(); return None when null.
\* In drop (line 93) the loop ends here and the sentinel is freed next.
D_LoadNext(t) ==
    /\ variant = "ebr" /\ pc[t] = "d_lnext"
    /\ \E v \in ReadPtr(next, loc[t].lhead) :
        IF IsNull(v)
        THEN /\ IF t = Dropper
                THEN Goto(t, "drop_free") /\ UNCHANGED <<loc, log>>
                ELSE Return(t) /\ log' = Append(log, NoneEvent(t))
        ELSE /\ loc' = [loc EXCEPT ![t].lnext = v]
             /\ Goto(t, "d_cas")
             /\ UNCHANGED log
    /\ Touch(loc[t].lhead)
    /\ UNCHANGED <<variant, mem, ebrv, hpv, phase, nEnq, nDeq, overlap, mixed, dfree>>

\* dequeue, lines 78-81: head.compare_exchange(lhead, lnext).
D_CasHead(t) ==
    /\ variant = "ebr" /\ pc[t] = "d_cas"
    /\ IF head = loc[t].lhead
       THEN /\ head' = loc[t].lnext
            /\ IF t = Dropper
               THEN UNCHANGED <<log, loc>>
               ELSE /\ log' = Append(log, DeqEvent(t))
                    /\ loc' = [loc EXCEPT ![t].idx = Len(log) + 1]
            /\ Goto(t, "d_item")
       ELSE /\ Goto(t, "d_lhead")
            /\ UNCHANGED <<head, log, loc>>
    /\ UNCHANGED <<variant, tail, item, prev, next, st, ebrv, hpv, phase,
                   nEnq, nDeq, overlap, mixed, uaf, dfree>>

\* A panic unwinds the caller: its guard is dropped with it.
Panic(t) ==
    /\ pc' = [pc EXCEPT ![t] = "panicked"]
    /\ loc' = [loc EXCEPT ![t] = NoLoc]

\* The payload moved out of the node (Option::take) instead of borrowed.
D_ItemTake(t) ==
    /\ variant = "ebr" /\ pc[t] = "d_item"
    /\ \E v \in ReadItem(loc[t].lnext) :
        IF v = None
        THEN /\ Panic(t)
             /\ IF t = Dropper THEN UNCHANGED ebrv ELSE DropGuard(t)
             /\ UNCHANGED <<log, item>>
        ELSE /\ Goto(t, "d_retire")
             /\ log' = IF t = Dropper THEN log
                       ELSE [log EXCEPT ![loc[t].idx].v = v]
             /\ item' = [item EXCEPT ![loc[t].lnext] = None]
             /\ UNCHANGED <<loc, ebrv>>
    /\ Touch(loc[t].lnext)
    /\ UNCHANGED <<variant, head, tail, prev, next, st, hpv, phase, nEnq, nDeq,
                   overlap, mixed, dfree>>

\* dequeue, line 83: lnext.item.as_ref().unwrap(), which panics on None.
D_Item(t) ==
    /\ variant = "ebr" /\ pc[t] = "d_item"
    /\ \E v \in ReadItem(loc[t].lnext) :
        IF v = None
        THEN /\ Panic(t)
             /\ IF t = Dropper THEN UNCHANGED ebrv ELSE DropGuard(t)
             /\ UNCHANGED log
        ELSE /\ Goto(t, "d_retire")
             /\ log' = IF t = Dropper THEN log
                       ELSE [log EXCEPT ![loc[t].idx].v = v]
             /\ UNCHANGED <<loc, ebrv>>
    /\ Touch(loc[t].lnext)
    /\ UNCHANGED <<variant, mem, hpv, phase, nEnq, nDeq, overlap, mixed, dfree>>

\* guard.defer_destroy(a) under a pinned guard: the node is retired, held
\* back by the guards active now.  Retiring a node that is not live is a
\* second retirement or the retirement of a destroyed node.
DeferDestroy(a) ==
    IF st[a] = "live"
    THEN /\ st' = [st EXCEPT ![a] = "retired"]
         /\ rg' = [rg EXCEPT ![a] = {u \in Threads : pinned[u]}]
         /\ UNCHANGED dfree
    ELSE /\ dfree' = TRUE
         /\ UNCHANGED <<st, rg>>

\* Destroying the node at a right away (defer_destroy under unprotected(),
\* or drop of an owned node).
Destroy(a) ==
    IF st[a] = "live"
    THEN /\ st' = [st EXCEPT ![a] = "freed"]
         /\ UNCHANGED dfree
    ELSE /\ dfree' = TRUE
         /\ st' = [st EXCEPT ![a] = "freed"]

\* dequeue, lines 84-85: guard.defer_destroy(lhead); return Some(item).
\* In drop (line 93) the guard is unprotected() and the loop goes on.
D_Retire(t) ==
    /\ variant = "ebr" /\ pc[t] = "d_retire"
    /\ IF t = Dropper
       THEN /\ Destroy(loc[t].lhead)
            /\ UNCHANGED rg
            /\ pc' = [pc EXCEPT ![t] = "d_lhead"]
            /\ loc' = [loc EXCEPT ![t] = NoLoc]
       ELSE /\ DeferDestroy(loc[t].lhead)
            /\ Return(t)
    /\ UNCHANGED <<variant, head, tail, item, prev, next, pinned, hpv, phase,
                   nEnq, nDeq, log, overlap, mixed, uaf>>

\* Drop for DoubleLink (ebr), line 93: starts when no call is running.
EbrDropBegin ==
    /\ variant = "ebr" /\ phase = "run"
    /\ \A u \in Threads : ~InCall(u)
    /\ phase' = "drop"
    /\ Goto(Dropper, "d_lhead")
    /\ UNCHANGED <<variant, mem, ebrv, hpv, loc, nEnq, nDeq, hist>>

\* Drop for DoubleLink (ebr), lines 94-100: drop(head.load().into_owned()).
EbrDropFree ==
    /\ variant = "ebr" /\ pc[Dropper] = "drop_free"
    /\ Destroy(head)
    /\ phase' = "dropped"
    /\ Return(Dropper)
    /\ UNCHANGED <<variant, head, tail, item, prev, next, ebrv, hpv,
                   nEnq, nDeq, log, overlap, mixed, uaf>>

EbrStep(t) ==
    \/ Pin(t) \/ Unpin(t)
    \/ E_Alloc(t) \/ E_LoadTail(t) \/ E_LoadPrev(t) \/ E_SetPrev(t)
    \/ E_HelpLoad(t) \/ E_HelpStore(t) \/ E_CasTail(t) \/ E_Link(t)
    \/ D_LoadHead(t) \/ D_LoadNext(t) \/ D_CasHead(t) \/ D_Item(t) \/ D_Retire(t)

NextEbr ==
    \/ \E t \in Procs : EbrStep(t)
    \/ \E a \in Addr : EbrReclaim(a)
    \/ EbrDropBegin
    \/ EbrDropFree

InitEbr == variant = "ebr" /\ InitQueue /\ InitRest

SpecEbr == InitEbr /\ [][NextEbr]_vars

\* ------------------------------------------------------------ HP
IsHp == variant \in {"hp", "hpx"}

\* HazardPointer::reset_protection on both slots of a holder.
ResetBoth(t) ==
    /\ pri' = [pri EXCEPT ![t] = Null]
    /\ sub' = [sub EXCEPT ![t] = Null]

\* A Holder goes out of scope: its hazard pointers release what they protect.
HolderDrop(t) ==
    /\ IsHp /\ t \in Threads
    /\ pc[t] = "idle" /\ (pri[t] # Null \/ sub[t] # Null)
    /\ ResetBoth(t)
    /\ UNCHANGED <<variant, mem, ebrv, pc, loc, phase, nEnq, nDeq, hist>>

\* The hazard domain frees a retired node that no hazard slot holds.
HpReclaim(a) ==
    /\ IsHp
    /\ st[a] = "retired"
    /\ \A u \in Procs : pri[u] # a /\ sub[u] # a
    /\ st' = [st EXCEPT ![a] = "freed"]
    /\ UNCHANGED <<variant, head, tail, item, prev, next, ebrv, hpv, pc, loc,
                   phase, nEnq, nDeq, hist>>

\* The atomic pointer protect_link reads.
Link(t) == IF loc[t].link = "tail" THEN tail ELSE head

\* The number of successful CASes so far on the pointer protect_link reads.
LinkCasCount(t) == IF loc[t].link = "tail" THEN TailCasCount ELSE HeadCasCount

\* enqueue, lines 66-67: allocate the node; then protect_link(&self.tail, pri).
H_Alloc(t) ==
    /\ IsHp /\ t \in Threads /\ phase = "run"
    /\ pc[t] = "idle" /\ nEnq < MaxEnq
    /\ \E a \in Allocatable :
        /\ NodeNew(a, nEnq + 1)
        /\ loc' = [loc EXCEPT ![t].node = a, ![t].link = "tail"]
    /\ Goto(t, "pl_load")
    /\ BeginEnq(t)
    /\ UNCHANGED <<variant, head, tail, ebrv, hpv, phase, nDeq, log, uaf, dfree>>

\* protect_link, line 134: ptr = link.load(); for dequeue (line 99) also the
\* start of the call.
PL_Load(t) ==
    /\ IsHp
    /\ \/ /\ t \in Threads /\ phase = "run" /\ pc[t] = "idle" /\ nDeq < MaxDeq
          /\ BeginDeq(t)
          /\ loc' = [loc EXCEPT ![t].link = "head", ![t].ptr = head,
                                ![t].seen = HeadCasCount]
       \/ /\ pc[t] = "pl_load"
          /\ loc' = [loc EXCEPT ![t].ptr = Link(t), ![t].seen = LinkCasCount(t)]
          /\ UNCHANGED <<nDeq, overlap, mixed>>
    /\ Goto(t, "pl_protect")
    /\ UNCHANGED <<variant, mem, ebrv, hpv, phase, nEnq, log, uaf, dfree>>

\* protect_link, line 136: hazptr.protect_raw(ptr).
PL_Protect(t) ==
    /\ IsHp /\ pc[t] = "pl_protect"
    /\ pri' = [pri EXCEPT ![t] = loc[t].ptr]
    /\ Goto(t, "pl_reload")
    /\ UNCHANGED <<variant, mem, ebrv, sub, loc, phase, nEnq, nDeq, hist>>

\* protect_link, lines 137-141: reload the link; return ptr when unchanged,
\* else protect the new value.
PL_Reload(t) ==
    /\ IsHp /\ pc[t] = "pl_reload"
    /\ IF Link(t) = loc[t].ptr
       THEN IF loc[t].link = "tail"
            THEN /\ loc' = [loc EXCEPT ![t].ltail = loc[t].ptr,
                                       ![t].seen = LinkCasCount(t)]
                 /\ Goto(t, "he_lprev")
            ELSE /\ loc' = [loc EXCEPT ![t].lhead = loc[t].ptr,
                                       ![t].seen = LinkCasCount(t)]
                 /\ Goto(t, "hd_lnext")
       ELSE /\ loc' = [loc EXCEPT ![t].ptr = Link(t), ![t].seen = LinkCasCount(t)]
            /\ Goto(t, "pl_protect")
    /\ UNCHANGED <<variant, mem, ebrv, hpv, phase, nEnq, nDeq, hist>>

\* enqueue, line 70: lprev = (*ltail).prev.
HE_LoadPrev(t) ==
    /\ IsHp /\ pc[t] = "he_lprev"
    /\ \E v \in ReadPtr(prev, loc[t].ltail) : loc' = [loc EXCEPT ![t].lprev = v]
    /\ Touch(loc[t].ltail)
    /\ Goto(t, "he_sub")
    /\ UNCHANGED <<variant, mem, ebrv, hpv, phase, nEnq, nDeq, log, overlap, mixed, dfree>>

\* enqueue, line 72: holder.sub.protect_raw(lprev).
HE_ProtSub(t) ==
    /\ IsHp /\ pc[t] = "he_sub"
    /\ sub' = [sub EXCEPT ![t] = loc[t].lprev]
    /\ Goto(t, "he_recheck")
    /\ UNCHANGED <<variant, mem, ebrv, pri, loc, phase, nEnq, nDeq, hist>>

\* The re-read of tail compared with lprev instead of ltail.
HE_RecheckWrongLocal(t) ==
    /\ IsHp /\ pc[t] = "he_recheck"
    /\ Goto(t, IF tail # loc[t].lprev THEN "pl_load" ELSE "he_setprev")
    /\ UNCHANGED <<variant, mem, ebrv, hpv, loc, phase, nEnq, nDeq, hist>>

\* enqueue, lines 73-76: fence; if tail.load() != ltail { continue }.
HE_Recheck(t) ==
    /\ IsHp /\ pc[t] = "he_recheck"
    /\ Goto(t, IF tail # loc[t].ltail THEN "pl_load" ELSE "he_setprev")
    /\ UNCHANGED <<variant, mem, ebrv, hpv, loc, phase, nEnq, nDeq, hist>>

\* enqueue, lines 78-79: node_mut.prev = ltail.
HE_SetPrev(t) ==
    /\ IsHp /\ pc[t] = "he_setprev"
    /\ prev' = [prev EXCEPT ![loc[t].node] = loc[t].ltail]
    /\ Touch(loc[t].node)
    /\ Goto(t, "he_help")
    /\ UNCHANGED <<variant, head, tail, item, next, st, ebrv, hpv, loc, phase,
                   nEnq, nDeq, log, overlap, mixed, dfree>>

\* enqueue, line 81: lprev.next.load().is_null().
HE_HelpLoad(t) ==
    /\ IsHp /\ pc[t] = "he_help"
    /\ IF loc[t].lprev = Null
       THEN Crash(t) /\ ResetBoth(t)
       ELSE /\ \E v \in ReadPtr(next, loc[t].lprev) :
                  Goto(t, IF IsNull(v) THEN "he_helpst" ELSE "he_cas")
            /\ Touch(loc[t].lprev)
            /\ UNCHANGED <<loc, hpv>>
    /\ UNCHANGED <<variant, mem, ebrv, phase, nEnq, nDeq, log, overlap, mixed, dfree>>

\* enqueue, line 82: lprev.next.store(ltail).
HE_HelpStore(t) ==
    /\ IsHp /\ pc[t] = "he_helpst"
    /\ next' = [next EXCEPT ![loc[t].lprev] = loc[t].ltail]
    /\ Touch(loc[t].lprev)
    /\ Goto(t, "he_cas")
    /\ UNCHANGED <<variant, head, tail, item, prev, st, ebrv, hpv, loc, phase,
                   nEnq, nDeq, log, overlap, mixed, dfree>>

\* enqueue, lines 84-87: tail.compare_exchange(ltail, node).
HE_CasTail(t) ==
    /\ IsHp /\ pc[t] = "he_cas"
    /\ IF tail = loc[t].ltail
       THEN /\ tail' = loc[t].node
            /\ log' = Append(log, EnqEvent(t, loc[t].node))
            /\ Goto(t, "he_link")
       ELSE /\ Goto(t, "pl_load")
            /\ UNCHANGED <<tail, log>>
    /\ UNCHANGED <<variant, head, item, prev, next, st, ebrv, hpv, loc, phase,
                   nEnq, nDeq, overlap, mixed, uaf, dfree>>

\* enqueue, line 89: ltail.next.store(node).
HE_Link(t) ==
    /\ IsHp /\ pc[t] = "he_link"
    /\ next' = [next EXCEPT ![loc[t].ltail] = loc[t].node]
    /\ Touch(loc[t].ltail)
    /\ Goto(t, "he_reset")
    /\ UNCHANGED <<variant, head, tail, item, prev, st, ebrv, hpv, loc, phase,
                   nEnq, nDeq, log, overlap, mixed, dfree>>

\* enqueue, lines 90-92: reset pri and sub; return.
HE_Reset(t) ==
    /\ IsHp /\ pc[t] = "he_reset"
    /\ ResetBoth(t)
    /\ Return(t)
    /\ UNCHANGED <<variant, mem, ebrv, phase, nEnq, nDeq, hist>>

\* dequeue, lines 100-105: lnext = lhead.next.load(); when null, reset pri
\* and return None.  In the example's drop the loop ends here.
HD_LoadNext(t) ==
    /\ IsHp /\ pc[t] = "hd_lnext"
    /\ \E v \in ReadPtr(next, loc[t].lhead) :
        IF IsNull(v)
        THEN /\ pri' = [pri EXCEPT ![t] = Null]
             /\ IF t = Dropper
                THEN Goto(t, "drop_free") /\ UNCHANGED <<loc, log>>
                ELSE Return(t) /\ log' = Append(log, NoneEvent(t))
        ELSE /\ loc' = [loc EXCEPT ![t].lnext = v]
             /\ Goto(t, "hd_sub")
             /\ UNCHANGED <<log, pri>>
    /\ Touch(loc[t].lhead)
    /\ UNCHANGED <<variant, mem, ebrv, sub, phase, nEnq, nDeq, overlap, mixed, dfree>>

\* The secondary slot protecting lhead instead of lnext.
HD_ProtSubWrongNode(t) ==
    /\ IsHp /\ pc[t] = "hd_sub"
    /\ sub' = [sub EXCEPT ![t] = loc[t].lhead]
    /\ Goto(t, "hd_recheck")
    /\ UNCHANGED <<variant, mem, ebrv, pri, loc, phase, nEnq, nDeq, hist>>

\* dequeue, line 107: holder.sub.protect_raw(lnext).
HD_ProtSub(t) ==
    /\ IsHp /\ pc[t] = "hd_sub"
    /\ sub' = [sub EXCEPT ![t] = loc[t].lnext]
    /\ Goto(t, "hd_recheck")
    /\ UNCHANGED <<variant, mem, ebrv, pri, loc, phase, nEnq, nDeq, hist>>

\* The re-read of head compared with lnext instead of lhead.
HD_RecheckWrongLocal(t) ==
    /\ IsHp /\ pc[t] = "hd_recheck"
    /\ Goto(t, IF head # loc[t].lnext THEN "pl_load" ELSE "hd_cas")
    /\ UNCHANGED <<variant, mem, ebrv, hpv, loc, phase, nEnq, nDeq, hist>>

\* dequeue, lines 108-111: fence; if head.load() != lhead { continue }.
HD_Recheck(t) ==
    /\ IsHp /\ pc[t] = "hd_recheck"
    /\ Goto(t, IF head # loc[t].lhead THEN "pl_load" ELSE "hd_cas")
    /\ UNCHANGED <<variant, mem, ebrv, hpv, loc, phase, nEnq, nDeq, hist>>

\* dequeue, lines 113-116: head.compare_exchange(lhead, lnext).
HD_CasHead(t) ==
    /\ IsHp /\ pc[t] = "hd_cas"
    /\ IF head = loc[t].lhead
       THEN /\ head' = loc[t].lnext
            /\ IF t = Dropper
               THEN UNCHANGED <<log, loc>>
               ELSE /\ log' = Append(log, DeqEvent(t))
                    /\ loc' = [loc EXCEPT ![t].idx = Len(log) + 1]
            /\ Goto(t, "hd_item")
       ELSE /\ Goto(t, "pl_load")
            /\ UNCHANGED <<head, log, loc>>
    /\ UNCHANGED <<variant, tail, item, prev, next, st, ebrv, hpv, phase,
                   nEnq, nDeq, overlap, mixed, uaf, dfree>>

\* dequeue, line 118: (*lnext).item.as_ref().unwrap(), which panics on None;
\* the unwinding drops the caller's holder.
HD_Item(t) ==
    /\ IsHp /\ pc[t] = "hd_item"
    /\ \E v \in ReadItem(loc[t].lnext) :
        IF v = None
        THEN /\ Panic(t)
             /\ ResetBoth(t)
             /\ UNCHANGED log
        ELSE /\ Goto(t, "hd_retire")
             /\ log' = IF t = Dropper THEN log
                       ELSE [log EXCEPT ![loc[t].idx].v = v]
             /\ UNCHANGED <<loc, hpv>>
    /\ Touch(loc[t].lnext)
    /\ UNCHANGED <<variant, mem, ebrv, phase, nEnq, nDeq, overlap, mixed, dfree>>

\* Domain::global().retire_ptr(a): the node is handed to the hazard domain.
RetirePtr(a) ==
    IF st[a] = "live"
    THEN st' = [st EXCEPT ![a] = "retired"] /\ UNCHANGED dfree
    ELSE dfree' = TRUE /\ UNCHANGED st

\* dequeue, lines 119-121: retire lhead; reset pri; return Some(item).
\* In the example's drop the loop goes on.
HD_Retire(t) ==
    /\ IsHp /\ pc[t] = "hd_retire"
    /\ RetirePtr(loc[t].lhead)
    /\ pri' = [pri EXCEPT ![t] = Null]
    /\ IF t = Dropper
       THEN /\ pc' = [pc EXCEPT ![t] = "pl_load"]
            /\ loc' = [loc EXCEPT ![t] = [NoLoc EXCEPT !.link = "head"]]
       ELSE Return(t)
    /\ UNCHANGED <<variant, head, tail, item, prev, next, ebrv, sub, phase,
                   nEnq, nDeq, log, overlap, mixed, uaf>>

\* Drop for DoubleLink (src/src/hp.rs), lines 127-131: the body is empty.
HpDrop ==
    /\ variant = "hp" /\ phase = "run"
    /\ \A u \in Threads : ~InCall(u)
    /\ phase' = "dropped"
    /\ UNCHANGED <<variant, mem, ebrv, hpv, pc, loc, nEnq, nDeq, hist>>

\* Drop for DoubleLink (examples/hp.rs), lines 129-130: a new Shield, then
\* dequeue until None.
HpxDropBegin ==
    /\ variant = "hpx" /\ phase = "run"
    /\ \A u \in Threads : ~InCall(u)
    /\ phase' = "drop"
    /\ pc' = [pc EXCEPT ![Dropper] = "pl_load"]
    /\ loc' = [loc EXCEPT ![Dropper].link = "head"]
    /\ UNCHANGED <<variant, mem, ebrv, hpv, nEnq, nDeq, hist>>

\* Drop for DoubleLink (examples/hp.rs), lines 131-132: free the node at
\* head; the Shield goes out of scope.
HpxDropFree ==
    /\ variant = "hpx" /\ pc[Dropper] = "drop_free"
    /\ Destroy(head)
    /\ ResetBoth(Dropper)
    /\ phase' = "dropped"
    /\ Return(Dropper)
    /\ UNCHANGED <<variant, head, tail, item, prev, next, ebrv,
                   nEnq, nDeq, log, overlap, mixed, uaf>>

HpStep(t) ==
    \/ HolderDrop(t)
    \/ H_Alloc(t) \/ PL_Load(t) \/ PL_Protect(t) \/ PL_Reload(t)
    \/ HE_LoadPrev(t) \/ HE_ProtSub(t) \/ HE_Recheck(t) \/ HE_SetPrev(t)
    \/ HE_HelpLoad(t) \/ HE_HelpStore(t) \/ HE_CasTail(t) \/ HE_Link(t) \/ HE_Reset(t)
    \/ HD_LoadNext(t) \/ HD_ProtSub(t) \/ HD_Recheck(t) \/ HD_CasHead(t)
    \/ HD_Item(t) \/ HD_Retire(t)

NextHp ==
    \/ \E t \in Procs : HpStep(t)
    \/ \E a \in Addr : HpReclaim(a)
    \/ HpDrop

NextHpx ==
    \/ \E t \in Procs : HpStep(t)
    \/ \E a \in Addr : HpReclaim(a)
    \/ HpxDropBegin
    \/ HpxDropFree

InitHp == variant = "hp" /\ InitQueue /\ InitRest

InitHpx == variant = "hpx" /\ InitQueue /\ InitRest

SpecHp == InitHp /\ [][NextHp]_vars

SpecHpx == InitHpx /\ [][NextHpx]_vars

\* Both variants of the library: src/src/ebr.rs and src/src/hp.rs.
Init == InitEbr \/ InitHp

Next == NextEbr \/ NextHp

Spec == Init /\ [][Next]_vars

\* Every thread keeps being scheduled: a thread inside a call always has a
\* step to take, and takes it.
FairHp == \A t \in Threads : WF_vars(HpStep(t))

SpecHpFair == SpecHp /\ FairHp

\* ------------------------------------------------------------ history
\* The positions of the successful head CASes in the history.
DeqIdx == {i \in DOMAIN log : log[i].op = "deq"}

\* The call of thread t ended by a panic or a crash instead of a return.
Ended(t) == pc[t] \in {"panicked", "crashed"}

\* No call is running.
Quiet == \A t \in Threads : ~InCall(t)

\* The threads whose enqueue installed item x by its tail CAS.
Prod(x) == {log[i].t : i \in {k \in DOMAIN log : log[k].op = "enq" /\ log[k].v = x}}

\* The history from event k on is what a reference FIFO sequence holding q
\* answers; a dequeue that has not read its item yet is not judged.
RECURSIVE Replay(_, _)
Replay(k, q) ==
    IF k > Len(log) THEN TRUE
    ELSE LET e == log[k] IN
         CASE e.op = "enq" -> Replay(k + 1, Append(q, e.v))
           [] e.op = "none" -> q = <<>> /\ Replay(k + 1, q)
           [] OTHER ->
                IF e.v = None /\ k = Len(log) /\ pc[e.t] \in {"d_item", "hd_item"}
                THEN TRUE
                ELSE q # <<>> /\ e.v = Head(q) /\ Replay(k + 1, Tail(q))

\* All calls so far were made by one thread, one at a time.
Sequential ==
    /\ ~overlap
    /\ \E t \in Threads :
        /\ \A i \in DOMAIN log : log[i].t = t
        /\ \A u \in Threads \ {t} : pc[u] = "idle"

\* ------------------------------------------------------------ claims

\* C1: when all enqueues (concurrent or not) returned before the first
\* dequeue started, no dequeue of the drain fails, and once a dequeue has
\* returned none and no call is running, the dequeued items are exactly the
\* enqueued ones, each once.
C1_NoLossAfterConcurrentEnqueue ==
    (variant = "ebr" /\ ~mixed /\ phase = "run") =>
        /\ \A t \in Threads : ~Ended(t)
        /\ ((\E i \in DOMAIN log : log[i].op = "none") /\ Quiet) =>
              /\ {log[i].v : i \in DeqIdx} = 1..nEnq
              /\ Cardinality(DeqIdx) = nEnq

\* C2: every item a dequeue returned was passed to an enqueue, and no item
\* was returned by two dequeues.
C2_NoDuplication ==
    /\ \A i \in DeqIdx : log[i].v \in {None} \cup (1..nEnq)
    /\ \A i, j \in DeqIdx : (i # j /\ log[i].v # None) => log[i].v # log[j].v

\* C3: two items of one producer are dequeued (in head-CAS order) in the
\* order that producer enqueued them; item numbers grow with each enqueue.
C3_PerProducerFifo ==
    \A i, j \in DeqIdx :
        (i < j /\ log[i].v # None /\ log[j].v # None /\ Prod(log[i].v) = Prod(log[j].v))
            => log[i].v < log[j].v

\* C4: when one thread makes all calls one at a time, every dequeue returns
\* what a reference FIFO sequence returns.
C4_SequentialFifo == Sequential => Replay(1, <<>>)

\* C5: in the EBR variant no enqueue or dequeue reads or writes a field of a
\* destroyed node.
C5_EbrMemorySafety == (variant = "ebr" /\ phase = "run") => ~uaf

\* C6: in the HP variant no enqueue or dequeue reads or writes a field of a
\* freed node.
C6_HpMemorySafety == (variant = "hp" /\ phase = "run") => ~uaf

\* The positions of a dequeue after its null check found a successor.
PastNullCheck ==
    {"d_cas", "d_item", "d_retire", "hd_sub", "hd_recheck", "hd_cas", "hd_item",
     "hd_retire", "panicked", "crashed"}

\* C7: as long as no enqueue has started, every dequeue returns none (it
\* never passes its null check), and head, tail, every node's fields and
\* the set of allocated, retired and freed nodes stay as constructed.
C7_EmptyDequeue ==
    (nEnq = 0 /\ phase # "dropped") =>
        /\ head = Sentinel0 /\ tail = Sentinel0
        /\ item = [a \in Addr |-> None]
        /\ prev = [a \in Addr |-> IF a = Sentinel0 THEN Sentinel0 ELSE Null]
        /\ next = [a \in Addr |-> Null]
        /\ st = [a \in Addr |-> IF a = Sentinel0 THEN "live" ELSE "unalloc"]
        /\ \A i \in DOMAIN log : log[i].op = "none"
        /\ \A t \in Procs : pc[t] \notin PastNullCheck
        /\ ~dfree

\* C7 witness: two dequeues have returned none on a queue no enqueue touched.
C7_Witness ==
    /\ nEnq = 0 /\ Quiet /\ phase = "run"
    /\ Len(log) = 2 /\ \A i \in DOMAIN log : log[i].op = "none"

\* C8: under fair scheduling every call that is running eventually ends:
\* every retry loop of enqueue, dequeue and protect_link is left.
C8_Progress == \A t \in Threads : InCall(t) ~> ~InCall(t)

\* C8 witness: an enqueue is in another iteration of its loop because tail
\* moved under it.
C8_Witness ==
    \E t \in Threads :
        /\ pc[t] = "pl_load" /\ loc[t].link = "tail"
        /\ loc[t].ltail # Null /\ loc[t].ltail # tail

\* C9: the drop of an EBR queue does not fail; when it is over no node is
\* left allocated and not retired, and no node was destroyed twice.
C9_EbrTeardown ==
    variant = "ebr" =>
        /\ ~Ended(Dropper)
        /\ phase = "dropped" => (~dfree /\ \A a \in Addr : st[a] # "live")

\* C10: when the drop of an HP queue is over no node is left allocated and
\* not retired, and no node was freed twice.
C10_HpTeardown ==
    (variant = "hp" /\ phase = "dropped") =>
        (~dfree /\ \A a \in Addr : st[a] # "live")

\* C11: a store to the next field of a node writes the node that replaced it
\* as tail (another node, whose prev is this one), and once the next field
\* of a node is non-null no store changes it.
C11_ForwardLinksSingleAssignment ==
    [][\A a \in Addr :
          (st[a] \in {"live", "retired"} /\ st'[a] \in {"live", "retired"}
              /\ next'[a] # next[a])
            => (next[a] = Null /\ next'[a] # a /\ prev[next'[a]] = a)]_vars

\* The tail-CAS events of the history, in order.
Installed == SelectSeq(log, LAMBDA e : e.op = "enq")

\* The head-CAS events of the history whose dequeue has read its item, in order.
Returned == SelectSeq(log, LAMBDA e : e.op = "deq" /\ e.v # None)

\* C12: whenever no dequeue is between its head CAS and the read of its
\* item, the items returned so far, in head-CAS order, are the first items
\* in tail-CAS order.
C12_DequeueFollowsTailCasOrder ==
    (\A t \in Threads : pc[t] \notin {"d_item", "hd_item"}) =>
        /\ Len(Returned) <= Len(Installed)
        /\ \A k \in DOMAIN Returned : Returned[k].v = Installed[k].v

\* The items some dequeue has returned.
RetVals == {log[i].v : i \in DeqIdx} \ {None}

\* The tail-CAS events whose item no dequeue has returned yet, in order.
Waiting == SelectSeq(Installed, LAMBDA e : e.v \notin RetVals)

\* The items of the k nodes that follow the node at a along the next links.
RECURSIVE Walk(_, _)
Walk(a, k) ==
    IF k = 0 THEN <<>>
    ELSE IF a \notin Addr \/ next[a] \notin Addr THEN <<None>>
    ELSE <<item[next[a]]>> \o Walk(next[a], k - 1)

\* C13: once every call has ended (so every enqueue has made its own store
\* of the next link and no helping store is outstanding), the nodes
\* installed by a tail CAS and not yet dequeued are reachable from head
\* along the next links, in tail-CAS order.
C13_EventualVisibility ==
    (Quiet /\ phase = "run") =>
        Walk(head, Len(Waiting)) = [k \in DOMAIN Waiting |-> Waiting[k].v]

\* The event a step has appended to the history.
LastEv == log'[Len(log')]

\* C14: a successful CAS on tail installs a node no tail CAS installed
\* before, linked behind the old tail and with no successor yet; a
\* successful CAS on head moves head to another node, the one installed
\* right behind the old head; head and tail change in no other way.
C14_HeadTailMoveForward ==
    [][phase = "run" =>
          /\ tail' # tail =>
                /\ Len(log') = Len(log) + 1 /\ LastEv.op = "enq"
                /\ \A i \in DOMAIN log : log[i].op = "enq" => log[i].v # LastEv.v
                /\ prev[tail'] = tail /\ next[tail'] = Null
          /\ (Len(log') = Len(log) + 1 /\ LastEv.op = "deq") =>
                /\ head' # head
                /\ prev[head'] = head
          /\ head' # head => (Len(log') = Len(log) + 1 /\ LastEv.op = "deq")
      ]_vars

\* C15: no dequeue hands a node to the reclamation service that was handed
\* to it before, and when a node is retired neither head nor tail is that
\* node.
C15_RetiredOnceAfterHeadPassed ==
    [][phase = "run" =>
          /\ ~dfree'
          /\ \A a \in Addr :
                (st[a] = "live" /\ st'[a] = "retired") => (head # a /\ tail # a)
      ]_vars

\* C16: in the HP variant, when an enqueue or a dequeue returns after its
\* CAS succeeded, both slots of the caller's holder protect no address.
C16_HpSlotsResetAfterSuccess ==
    [][\A t \in Threads :
          (IsHp /\ pc[t] \in {"he_reset", "hd_retire"} /\ pc'[t] = "idle")
            => (pri'[t] = Null /\ sub'[t] = Null)]_vars

\* C16 as amended: a successful enqueue returns with both slots reset; a
\* successful dequeue returns with pri reset and sub still protecting lnext,
\* the node that holds the item it returns.
C16_HpSlotsAfterSuccess ==
    [][\A t \in Threads :
          /\ (IsHp /\ pc[t] = "he_reset" /\ pc'[t] = "idle")
                => (pri'[t] = Null /\ sub'[t] = Null)
          /\ (IsHp /\ pc[t] = "hd_retire" /\ pc'[t] = "idle")
                => (pri'[t] = Null /\ sub'[t] = loc[t].lnext /\ sub'[t] # Null)]_vars

\* C16 witness: a dequeue has returned an item and its holder still protects
\* the node of that item in sub, with pri reset.
C16_Witness ==
    \E t \in Threads :
        /\ IsHp /\ pc[t] = "idle" /\ pri[t] = Null /\ sub[t] # Null
        /\ sub[t] = head /\ item[sub[t]] \in RetVals
        /\ \E i \in DeqIdx : log[i].t = t /\ log[i].v = item[sub[t]]

\* C17: in the HP variant, when a dequeue returns none, neither pri nor sub
\* of the caller's holder holds an address.
C17_HpReleasedOnEmptyPath ==
    [][\A t \in Threads :
          (IsHp /\ pc[t] = "hd_lnext" /\ pc'[t] = "idle")
            => (pri'[t] = Null /\ sub'[t] = Null)]_vars

\* The successful CASes on head, in order.
HeadCas == SelectSeq(log, LAMBDA e : e.op = "deq")

\* Thread t is about to start another iteration of the loop of enqueue.
RetryEnq(t) ==
    /\ loc[t].ltail # Null
    /\ \/ pc[t] = "e_ltail"
       \/ pc[t] = "pl_load" /\ loc[t].link = "tail"

\* Thread t is about to start another iteration of the loop of dequeue.
RetryDeq(t) ==
    /\ loc[t].lhead # Null
    /\ \/ pc[t] = "d_lhead"
       \/ pc[t] = "pl_load" /\ loc[t].link = "head"

\* C18: when a call is about to start another iteration of its loop, a CAS
\* of another thread on the pointer it works on (tail for enqueue, head for
\* dequeue) has succeeded since this call last loaded that pointer.
C18_RetryMeansOtherCas ==
    \A t \in Threads :
        /\ RetryEnq(t) =>
              \E k \in (loc[t].seen + 1)..Len(Installed) : Installed[k].t # t
        /\ RetryDeq(t) =>
              \E k \in (loc[t].seen + 1)..Len(HeadCas) : HeadCas[k].t # t

\* C18 witness: a dequeue of the HP variant is about to retry because its
\* re-read of head, or its CAS on head, found that head had moved.
C18_Witness ==
    \E t \in Threads :
        /\ RetryDeq(t) /\ loc[t].lnext # Null /\ head # loc[t].lhead
        /\ pc[t] = "pl_load"

\* C19: the node head references holds no payload.
C19_SentinelNoPayload == phase = "run" => item[head] = None

\* C19 as amended: until a CAS on head has succeeded, head references the
\* initial sentinel, which holds no payload; a dequeue that reads its item
\* leaves the payload in the node it advanced head to (no item changes),
\* and that node, while it is a node, holds the item the dequeue returns.
C19_SentinelKeepsReturnedPayload ==
    [][phase = "run" =>
          /\ HeadCasCount = 0 => (head = Sentinel0 /\ item[head] = None)
          /\ \A t \in Threads :
                (pc[t] \in {"d_item", "hd_item"} /\ pc'[t] \in {"d_retire", "hd_retire"})
                  => /\ item' = item
                     /\ Mapped(loc[t].lnext) =>
                           /\ item'[loc[t].lnext] # None
                           /\ log'[loc[t].idx].v = item'[loc[t].lnext]
      ]_vars

\* C19 witness: a dequeue has returned, and the node head references holds
\* the item it returned.
C19_Witness ==
    /\ variant = "ebr" /\ phase = "run" /\ Quiet
    /\ item[head] # None /\ item[head] \in RetVals

\* C20: no dequeue (and no drop) panics in the unwrap of lnext.item.
C20_NeverUnwrapsAbsentPayload == \A t \in Procs : pc[t] # "panicked"

\* C21: head never overtakes tail: the number of dequeues that have returned
\* an item, each of which moved head one node on, never exceeds the number
\* of successful CASes on tail.
C21_HeadNeverOvertakesTail == Len(Returned) <= TailCasCount

====
